---- MODULE Spec2Model ----
(***************************************************************************)
(* Session_2_Tuning_Curves.ipynb: the tuning-curve computation of one      *)
(* neuron, cell by cell.  The notebook's kernel namespace is the state,    *)
(* each code cell (each loop iteration of a cell that loops) is an action. *)
(*                                                                         *)
(* float64 values are modelled as exact rationals [n, d] extended with     *)
(* the IEEE specials: d = 0 encodes n = 0: NaN, n = 1: +inf, n = -1: -inf. *)
(* Rounding is not modelled.  Array positions are Python's (0-based); the  *)
(* TLA+ sequence that holds an array has position p at index p + 1.        *)
(***************************************************************************)
EXTENDS Integers, Sequences, FiniteSets, TLC

\* ------------------------------------------------------------------ bounds
DirSlack == 1       \* tables have NDIR - DirSlack .. NDIR + DirSlack directions
TfSlack == 1        \* tables have NTF - TfSlack .. NTF + TfSlack temporal frequencies
MaxReps == 2        \* repeats of each stimulus condition
MaxBlanks == 1      \* blank sweeps in the table
MaxLenDev == 1      \* trial 0 lasts 60 - MaxLenDev .. 60 + MaxLenDev frames
MaxDeviations == 1  \* parameters in which a session differs from the nominal one

\* ------------------------------------------------------- program constants
NDIR == 8           \* np.empty((8)), np.empty((8,5)), range(8)
NTF == 5            \* np.empty((8,5)), range(5)
PAD == 30           \* start[0]-30, end[0]+30, axvspan(30, ...)
SPAN_END == 90      \* axvspan(..., 90)
SEL_ORI == 90       \* stim_table.orientation==90

\* --------------------------------------------------------- float64 values
Abs(x) == IF x < 0 THEN -x ELSE x

Sign(x) == IF x < 0 THEN -1 ELSE IF x > 0 THEN 1 ELSE 0

RECURSIVE GCD(_, _)
GCD(a, b) == IF b = 0 THEN a ELSE GCD(b, a % b)

\* the float n/d, in lowest terms with a positive denominator
RNorm(n, d) ==
    IF d = 0 THEN [n |-> Sign(n), d |-> 0]
    ELSE LET g == GCD(Abs(n), Abs(d))
         IN  [n |-> Sign(d) * Sign(n) * (Abs(n) \div g), d |-> Abs(d) \div g]

F(k) == [n |-> k, d |-> 1]

NaN == [n |-> 0, d |-> 0]

IsNaN(a) == a.d = 0 /\ a.n = 0

IsFinite(a) == a.d # 0

RAdd(a, b) ==
    IF IsNaN(a) \/ IsNaN(b) THEN NaN
    ELSE IF a.d = 0 /\ b.d = 0 THEN (IF a.n = b.n THEN a ELSE NaN)
    ELSE IF a.d = 0 THEN a
    ELSE IF b.d = 0 THEN b
    ELSE LET g == GCD(a.d, b.d)
             m == (a.d \div g) * b.d
         IN  RNorm(a.n * (m \div a.d) + b.n * (m \div b.d), m)

RNeg(a) == [n |-> -a.n, d |-> a.d]

RSub(a, b) == RAdd(a, RNeg(b))

RMul(a, b) ==
    IF IsNaN(a) \/ IsNaN(b) THEN NaN
    ELSE LET g1 == GCD(Abs(a.n), b.d)
             g2 == GCD(Abs(b.n), a.d)
             h1 == IF g1 = 0 THEN 1 ELSE g1
             h2 == IF g2 = 0 THEN 1 ELSE g2
         IN  RNorm((a.n \div h1) * (b.n \div h2), (a.d \div h2) * (b.d \div h1))

RDiv(a, b) ==
    IF IsNaN(a) \/ IsNaN(b) THEN NaN
    ELSE RMul(a, RNorm(b.d * Sign(b.n), Abs(b.n)))

\* float comparison: every comparison with NaN is False
REq(a, b) == ~IsNaN(a) /\ ~IsNaN(b) /\ a = b

RLess(a, b) == ~IsNaN(a) /\ ~IsNaN(b) /\ a # b /\
    IF a.d = 0 THEN a.n < 0 /\ (b.d # 0 \/ b.n > 0)
    ELSE IF b.d = 0 THEN b.n > 0
    ELSE a.n * b.d < b.n * a.d

\* the sum of s[a..b], by halves
RECURSIVE RSumRange(_, _, _)
RSumRange(s, a, b) ==
    IF a > b THEN F(0)
    ELSE IF a = b THEN s[a]
    ELSE LET m == (a + b) \div 2
         IN  RAdd(RSumRange(s, a, m), RSumRange(s, m + 1, b))

RSum(s) == RSumRange(s, 1, Len(s))

\* ndarray.mean(): the sum over the count; 0.0/0 = NaN for an empty array
Mean(s) == RDiv(RSum(s), F(Len(s)))

\* ------------------------------------------------------ indexing helpers
\* the positions a[lo:hi] selects in an array of length n
PySlice(lo, hi, n) ==
    LET clip(k) == IF k < 0 THEN (IF k + n < 0 THEN 0 ELSE k + n)
                   ELSE IF k > n THEN n ELSE k
        a == clip(lo)
        b == clip(hi)
    IN  IF a < b THEN [p \in 1..(b - a) |-> a + p - 1] ELSE <<>>

\* a[idx] for a sequence of positions
Take(a, idx) == [p \in 1..Len(idx) |-> a[idx[p] + 1]]

\* a[mask] for a boolean mask of a's length: the positions where the mask
\* is True, in ascending order
MaskPositions(mask) ==
    LET S == {k \in 1..Len(mask) : mask[k]}
    IN  [p \in 1..Cardinality(S) |->
           (CHOOSE k \in S : Cardinality({m \in S : m <= k}) = p) - 1]

BoolIndex(a, mask) == Take(a, MaskPositions(mask))

\* series[label]: the value of column col in the row labelled label
Loc(table, col, label) ==
    LET r == CHOOSE r \in 1..Len(table) : table[r].index = label
    IN  table[r][col]

\* np.unique: the distinct values in ascending order, NaN (once) at the end
RECURSIVE SortedSeq(_)
SortedSeq(S) ==
    IF S = {} THEN <<>>
    ELSE LET m == CHOOSE x \in S : \A y \in S : ~RLess(y, x)
         IN  <<m>> \o SortedSeq(S \ {m})

Unique(a) ==
    LET vals == {a[k] : k \in 1..Len(a)}
    IN  SortedSeq({v \in vals : ~IsNaN(v)})
          \o (IF \E v \in vals : IsNaN(v) THEN <<NaN>> ELSE <<>>)


\* ------------------------------------------------------- the loaded data
\* The session's stimulus table and DF/F trace come from the data set.  The
\* tables considered: every (direction, temporal frequency) condition of an
\* nd x ntf design, optionally without one condition, repeated reps times,
\* in tf-major order or its reverse, with blank sweeps after the first trial.
ShortLen == 2       \* frames of every trial after trial 0
Gap == 1            \* frames between two trials

Start0Set == {12, 40}

PatternSet == {"flat", "tuned"}

TfDomain == <<1, 2, 4, 8, 15, 30, 60, 120>>

Reverse(s) == [k \in 1..Len(s) |-> s[Len(s) + 1 - k]]

Conditions(nd, ntf, miss, reps) ==
    LET all == [k \in 1..(nd * ntf * reps) |->
                   [d   |-> ((k - 1) % nd) + 1,
                    t   |-> (((k - 1) \div nd) % ntf) + 1,
                    rep |-> ((k - 1) \div (nd * ntf)) + 1,
                    blank |-> FALSE]]
        keep(c) == ~(miss /\ c.d = 2 /\ c.t = 2)
    IN  SelectSeq(all, keep)

Trials(nd, ntf, miss, reps, blanks, rev) ==
    LET cs == Conditions(nd, ntf, miss, reps)
        os == IF rev THEN Reverse(cs) ELSE cs
        bs == [k \in 1..blanks |-> [d |-> 0, t |-> 0, rep |-> k, blank |-> TRUE]]
    IN  <<Head(os)>> \o bs \o Tail(os)

StartOf(p, start0, len0) ==
    IF p = 1 THEN start0
    ELSE start0 + len0 + Gap + (p - 2) * (ShortLen + Gap)

EndOf(p, start0, len0) ==
    IF p = 1 THEN start0 + len0 ELSE StartOf(p, start0, len0) + ShortLen

MakeTable(ts, start0, len0) ==
    [p \in 1..Len(ts) |->
        [index |-> p - 1,
         start |-> StartOf(p, start0, len0),
         end |-> EndOf(p, start0, len0),
         orientation |-> IF ts[p].blank THEN NaN ELSE F(45 * (ts[p].d - 1)),
         temporal_frequency |-> IF ts[p].blank THEN NaN ELSE F(TfDomain[ts[p].t]),
         blank_sweep |-> IF ts[p].blank THEN F(1) ELSE F(0)]]

\* the DF/F of the neuron: constant ("flat"), or a level that depends on the
\* grating during each presentation and 0 between presentations ("tuned")
Level(c) == IF c.blank THEN 0 ELSE 1 + ((c.d + 2 * c.t + c.rep) % 3)

\* the table position of the trial presented at frame k, 0 between trials
TrialAt(k, nrows, start0, len0) ==
    LET off == k - (start0 + len0 + Gap)
        p == 2 + (off \div (ShortLen + Gap))
    IN  IF k >= start0 /\ k < start0 + len0 THEN 1
        ELSE IF off >= 0 /\ off % (ShortLen + Gap) < ShortLen /\ p <= nrows THEN p
        ELSE 0

MakeTrace(ts, start0, len0, pattern) ==
    LET n == EndOf(Len(ts), start0, len0) + PAD + 1
    IN  [q \in 1..n |->
           LET p == TrialAt(q - 1, Len(ts), start0, len0)
           IN  IF pattern = "flat" THEN 1
               ELSE IF p = 0 THEN 0
               ELSE Level(ts[p])]

\* np.empty: the array holds whatever the memory held
Garbage == {F(0), F(7), NaN}

\* -------------------------------------------------------------- platform
\* a string is a sequence of characters; t in s
Contains(s, t) ==
    \E k \in 0..(Len(s) - Len(t)) : SubSeq(s, k + 1, k + Len(t)) = t

RECURSIVE Join(_)
Join(parts) ==
    IF Len(parts) = 1 THEN parts[1]
    ELSE parts[1] \o <<"-">> \o Join(Tail(parts))

Str_Darwin == <<"D", "a", "r", "w", "i", "n">>

Str_macOS == <<"m", "a", "c", "O", "S">>

Str_Windows == <<"W", "i", "n", "d", "o", "w", "s">>

Str_amzn == <<"a", "m", "z", "n">>

Str_Linux == <<"L", "i", "n", "u", "x">>

MaxParts == 2       \* parts of a platform string

\* systems platform.platform() starts with, and text found in its release
\* and version parts
Systems == {Str_Linux, Str_Darwin, Str_macOS, Str_Windows,
            <<"F", "r", "e", "e", "B", "S", "D">>}

ReleaseParts == Systems \cup {Str_amzn \o <<"2">>,
                              <<"g", "e", "n", "e", "r", "i", "c">>}

PlatformStrings ==
    {Join(parts) : parts \in
        {q \in UNION {[1..n -> ReleaseParts] : n \in 1..MaxParts} :
            q[1] \in Systems}}

Unbound == "<unbound>"

\* the if/elif chain: the value data_root has after it
DataRoot_linux_first(plat, in_colab) ==
    IF Contains(plat, Str_Darwin) \/ Contains(plat, Str_macOS)
    THEN "/Volumes/TReND2025/"
    ELSE IF Contains(plat, Str_Windows) THEN "E:/"
    ELSE IF Contains(plat, Str_Linux) THEN "/media/$USERNAME/TReND2025/"
    ELSE IF Contains(plat, Str_amzn) \/ in_colab THEN "/data/"
    ELSE Unbound

DataRoot(plat, in_colab) ==
    IF Contains(plat, Str_Darwin) \/ Contains(plat, Str_macOS)
    THEN "/Volumes/TReND2025/"
    ELSE IF Contains(plat, Str_Windows) THEN "E:/"
    ELSE IF Contains(plat, Str_amzn) \/ in_colab THEN "/data/"
    ELSE IF Contains(plat, Str_Linux) THEN "/media/$USERNAME/TReND2025/"
    ELSE Unbound

\* os.path.join(data_root, ...): every data root ends with a separator
ManifestFile(root) ==
    root \o "allen-brain-observatory/visual-coding-2p/manifest.json"

\* the session the analysis cells are checked on: Code Ocean
NominalPlatform == Join(<<Str_Linux, Str_amzn \o <<"2">>>>)


\* ----------------------------------------------------------------- state
VARIABLES
    pc,                 \* the cell to run next, or the cell that raised
    err,                \* the exception that stopped the run, or "none"
    dff_trace,          \* DF/F of the cell, one value per frame
    stim_table,         \* the drifting-gratings stimulus table, one row per trial
    selection,          \* stim_table[stim_table.orientation==90]
    plot_frames,        \* single-trial plot: the frame shown at each x position
    plot_y,             \* single-trial plot: the value shown at each x position
    shade,              \* the x-range axvspan shades
    direction,          \* stim_table.orientation.values
    temporal_frequency, \* stim_table.temporal_frequency.values
    trial_response,
    all_dir,
    dirvals,
    tuning,
    tfvals,             \* <<>> while the name is unbound
    tfvals_bound,       \* the name tfvals is bound in the namespace
    tuning_array,
    tuning_array_z,
    i,                  \* loop index i of the running loop
    j,                  \* loop index j of the running loop
    writes,             \* per array, the number of assignments to each position
    iters,              \* per loop, the number of executions of its body
    tuning_plot,        \* the direction tuning curve: x and y of plt.plot
    line_plot,          \* the curves of the per-temporal-frequency plot
    heatmap,            \* imshow(tuning_array): image, xticks, yticks
    platstring,         \* platform.platform(), a sequence of characters
    colab,              \* 'google.colab' in sys.modules
    data_root,          \* the data root, Unbound while the name is unbound
    manifest_file       \* the path of the manifest, Unbound likewise

vars == <<pc, err, dff_trace, stim_table, selection, plot_frames, plot_y, shade,
          direction, temporal_frequency, trial_response, all_dir, dirvals,
          tuning, tfvals, tfvals_bound, tuning_array, tuning_array_z, i, j,
          writes, iters, tuning_plot, line_plot, heatmap, platstring, colab,
          data_root, manifest_file>>

figures == <<tuning_plot, line_plot, heatmap>>

analysis == <<dff_trace, stim_table, selection, plot_frames, plot_y, shade,
              direction, temporal_frequency, trial_response, all_dir, dirvals,
              tuning, tfvals, tfvals_bound, tuning_array, tuning_array_z, i, j,
              writes, iters>>

platform == <<platstring, colab, data_root, manifest_file>>

\* the code cells in notebook order
Cells == <<"data_access", "load_session", "subselect", "plot_trial",
           "trial_setup", "trial_loop", "unique_dir", "tuning_init",
           "tuning_loop", "tuning_plot", "exercise3", "tuning_array_init",
           "tuning_array_loop", "line_plot", "heatmap", "zscore", "done">>

Pos(c) == CHOOSE k \in 1..Len(Cells) : Cells[k] = c

\* cell c has run to its end
Finished(c) == Pos(pc) > Pos(c)

\* import numpy as np; import pandas as pd; import matplotlib.pyplot as plt
Imported == {"np", "pd", "plt"}

\* the names a cell binds when it runs as written
Assigns(c) ==
    CASE c = "data_access" ->
           {"os", "sys", "platform", "BrainObservatoryCache", "platstring",
            "data_root", "manifest_file", "boc"}
      [] c = "load_session" ->
           {"cell_id", "exps", "session_id", "data_set", "timestamps", "dff",
            "dff_trace", "stim_table"}
      [] c = "trial_setup" -> {"direction", "temporal_frequency", "trial_response"}
      [] c = "trial_loop" -> {"i"}
      [] c = "unique_dir" -> {"all_dir", "dirvals"}
      [] c = "tuning_init" -> {"tuning"}
      [] c = "tuning_loop" -> {"i", "d", "trials"}
      [] c = "tuning_array_init" -> {"tuning_array"}
      [] c = "tuning_array_loop" -> {"i", "tf", "j", "d", "trials"}
      [] c = "line_plot" -> {"i", "tf"}
      [] c = "heatmap" -> {"cbar"}
      [] c = "zscore" -> {"tuning_array_z"}
      [] OTHER -> {}

\* the names a cell reads that it has not bound itself
Reads(c) ==
    CASE c = "load_session" -> {"boc"}
      [] c = "subselect" -> {"stim_table"}
      [] c = "plot_trial" -> {"plt", "dff_trace", "stim_table"}
      [] c = "trial_setup" -> {"stim_table", "np"}
      [] c = "trial_loop" -> {"stim_table", "dff_trace", "trial_response"}
      [] c = "unique_dir" -> {"np", "direction"}
      [] c = "tuning_init" -> {"np"}
      [] c = "tuning_loop" -> {"dirvals", "direction", "trial_response", "tuning"}
      [] c = "tuning_plot" -> {"plt", "dirvals", "tuning"}
      [] c = "tuning_array_init" -> {"np"}
      [] c = "tuning_array_loop" ->
           {"tfvals", "dirvals", "temporal_frequency", "direction",
            "trial_response", "tuning_array"}
      [] c = "line_plot" -> {"tfvals", "plt", "dirvals", "tuning_array"}
      [] c = "heatmap" -> {"plt", "tuning_array", "tfvals", "dirvals"}
      [] c = "zscore" -> {"tuning_array"}
      [] OTHER -> {}

\* the names bound in the kernel
BoundNames ==
    Imported \cup UNION {Assigns(Cells[k]) : k \in 1..(Pos(pc) - 1)}
             \cup (IF tfvals_bound THEN {"tfvals"} ELSE {})

Zeros(n) == [k \in 1..n |-> 0]

\* the nominal session: 8 directions x 5 temporal frequencies, every
\* condition twice, one blank sweep, trials in reverse order, trial 0 at
\* frame 40 for 60 frames, a tuned response
B2N(b) == IF b THEN 1 ELSE 0

Deviations(nd, ntf, miss, reps, blanks, rev, start0, len0, pattern) ==
    B2N(nd # NDIR) + B2N(ntf # NTF) + B2N(miss) + B2N(reps # 2)
      + B2N(blanks # 1) + B2N(~rev) + B2N(start0 < PAD)
      + B2N(len0 # SPAN_END - PAD) + B2N(pattern # "tuned")

Init ==
    \E nd \in (NDIR - DirSlack)..(NDIR + DirSlack),
       ntf \in (NTF - TfSlack)..(NTF + TfSlack),
       miss \in BOOLEAN, reps \in 1..MaxReps, blanks \in 0..MaxBlanks,
       rev \in BOOLEAN, start0 \in Start0Set,
       len0 \in (SPAN_END - PAD - MaxLenDev)..(SPAN_END - PAD + MaxLenDev),
       pattern \in PatternSet :
      /\ Deviations(nd, ntf, miss, reps, blanks, rev, start0, len0, pattern)
            <= MaxDeviations
      /\ LET ts == Trials(nd, ntf, miss, reps, blanks, rev) IN
        /\ stim_table = MakeTable(ts, start0, len0)
        /\ dff_trace = MakeTrace(ts, start0, len0, pattern)
        /\ pc = "subselect"
        /\ err = "none"
        /\ selection = <<>>
        /\ plot_frames = <<>>
        /\ plot_y = <<>>
        /\ shade = <<>>
        /\ direction = <<>>
        /\ temporal_frequency = <<>>
        /\ trial_response = <<>>
        /\ all_dir = <<>>
        /\ dirvals = <<>>
        /\ tuning = <<>>
        /\ tfvals = <<>>
        /\ tfvals_bound = FALSE
        /\ tuning_array = <<>>
        /\ tuning_array_z = <<>>
        /\ i = 0
        /\ j = 0
        /\ writes = [trial_response |-> <<>>, tuning |-> <<>>, tuning_array |-> <<>>]
        /\ iters = [trial |-> 0, dir |-> 0, two_d |-> 0]
        /\ tuning_plot = <<>>
        /\ line_plot = <<>>
        /\ heatmap = <<>>
        /\ platstring = NominalPlatform
        /\ colab = FALSE
        /\ data_root = DataRoot(NominalPlatform, FALSE)
        /\ manifest_file = ManifestFile(DataRoot(NominalPlatform, FALSE))

\* ----------------------------------------------------------------- cells
\* stim_table[stim_table.orientation==90]
SelectRows_reset_index(table, mask) ==
    LET rows == BoolIndex(table, mask)
    IN  [p \in 1..Len(rows) |-> [rows[p] EXCEPT !.index = p - 1]]

SelectRows(table, mask) == BoolIndex(table, mask)

OrientationMask(table, v) == [r \in 1..Len(table) |-> REq(table[r].orientation, F(v))]

\* selection.iloc[p]
Iloc(table, p) == table[p + 1]

Subselect ==
    /\ pc = "subselect"
    /\ UNCHANGED <<figures, platform>>
    /\ selection' = SelectRows(stim_table, OrientationMask(stim_table, SEL_ORI))
    /\ pc' = "plot_trial"
    /\ UNCHANGED <<err, dff_trace, stim_table, plot_frames, plot_y, shade,
                   direction, temporal_frequency, trial_response, all_dir,
                   dirvals, tuning, tfvals, tfvals_bound, tuning_array,
                   tuning_array_z, i, j, writes, iters>>

\* plt.plot(dff_trace[start[0]-30:end[0]+30]); plt.axvspan(30,90)
PlotWindow(table, n) ==
    PySlice(Loc(table, "start", 0) - PAD, Loc(table, "end", 0) + PAD, n)

PlotTrial ==
    /\ pc = "plot_trial"
    /\ UNCHANGED <<figures, platform>>
    /\ plot_frames' = PlotWindow(stim_table, Len(dff_trace))
    /\ plot_y' = Take(dff_trace, plot_frames')
    /\ shade' = <<PAD, SPAN_END>>
    /\ pc' = "trial_setup"
    /\ UNCHANGED <<err, dff_trace, stim_table, selection, direction,
                   temporal_frequency, trial_response, all_dir, dirvals, tuning,
                   tfvals, tfvals_bound, tuning_array, tuning_array_z, i, j,
                   writes, iters>>

\* direction = ...values; temporal_frequency = ...values; trial_response = np.zeros(len)
Column(table, col) == [r \in 1..Len(table) |-> table[r][col]]

TrialSetup ==
    /\ pc = "trial_setup"
    /\ UNCHANGED <<figures, platform>>
    /\ direction' = Column(stim_table, "orientation")
    /\ temporal_frequency' = Column(stim_table, "temporal_frequency")
    /\ trial_response' = [k \in 1..Len(stim_table) |-> F(0)]
    /\ writes' = [writes EXCEPT !.trial_response = Zeros(Len(stim_table))]
    /\ i' = 0
    /\ pc' = "trial_loop"
    /\ UNCHANGED <<err, dff_trace, stim_table, selection, plot_frames, plot_y,
                   shade, all_dir, dirvals, tuning, tfvals, tfvals_bound,
                   tuning_array, tuning_array_z, j, iters>>

\* dff_trace[stim_table.start[k]:stim_table.end[k]].mean()
RECURSIVE SumIntRange(_, _, _)
SumIntRange(s, a, b) ==
    IF a > b THEN 0
    ELSE IF a = b THEN s[a]
    ELSE LET m == (a + b) \div 2
         IN  SumIntRange(s, a, m) + SumIntRange(s, m + 1, b)

SumInt(s) == SumIntRange(s, 1, Len(s))

TrialFrames_inclusive(table, k, n) ==
    PySlice(Loc(table, "start", k), Loc(table, "end", k) + 1, n)

TrialFrames(table, k, n) == PySlice(Loc(table, "start", k), Loc(table, "end", k), n)

TrialMean(trace, table, k) ==
    LET ys == Take(trace, TrialFrames(table, k, Len(trace)))
    IN  RNorm(SumInt(ys), Len(ys))

\* for i in range(len(stim_table)): trial_response[i] = ...mean()
TrialLoop ==
    /\ pc = "trial_loop"
    /\ UNCHANGED <<figures, platform>>
    /\ IF i < Len(stim_table)
       THEN /\ trial_response' = [trial_response EXCEPT
                                    ![i + 1] = TrialMean(dff_trace, stim_table, i)]
            /\ writes' = [writes EXCEPT !.trial_response[i + 1] = @ + 1]
            /\ iters' = [iters EXCEPT !.trial = @ + 1]
            /\ i' = i + 1
            /\ pc' = pc
       ELSE /\ pc' = "unique_dir"
            /\ UNCHANGED <<trial_response, writes, iters, i>>
    /\ UNCHANGED <<err, dff_trace, stim_table, selection, plot_frames, plot_y,
                   shade, direction, temporal_frequency, all_dir, dirvals,
                   tuning, tfvals, tfvals_bound, tuning_array, tuning_array_z, j>>


\* all_dir = np.unique(direction); dirvals = all_dir[np.isfinite(all_dir)]
FiniteMask_all(a) == [k \in 1..Len(a) |-> TRUE]

FiniteMask(a) == [k \in 1..Len(a) |-> IsFinite(a[k])]

FiniteValues(a) == BoolIndex(Unique(a), FiniteMask(Unique(a)))

UniqueDir ==
    /\ pc = "unique_dir"
    /\ UNCHANGED <<figures, platform>>
    /\ all_dir' = Unique(direction)
    /\ dirvals' = FiniteValues(direction)
    /\ pc' = "tuning_init"
    /\ UNCHANGED <<err, dff_trace, stim_table, selection, plot_frames, plot_y,
                   shade, direction, temporal_frequency, trial_response, tuning,
                   tfvals, tfvals_bound, tuning_array, tuning_array_z, i, j,
                   writes, iters>>

\* tuning = np.empty((8))
TuningInit ==
    /\ pc = "tuning_init"
    /\ UNCHANGED <<figures, platform>>
    /\ \E g \in Garbage : tuning' = [k \in 1..NDIR |-> g]
    /\ writes' = [writes EXCEPT !.tuning = Zeros(NDIR)]
    /\ i' = 0
    /\ pc' = "tuning_loop"
    /\ UNCHANGED <<err, dff_trace, stim_table, selection, plot_frames, plot_y,
                   shade, direction, temporal_frequency, trial_response, all_dir,
                   dirvals, tfvals, tfvals_bound, tuning_array, tuning_array_z,
                   j, iters>>

\* trials = direction==d
DirMask_upto(dir, d) == [r \in 1..Len(dir) |-> REq(dir[r], d) \/ RLess(dir[r], d)]

DirMask(dir, d) == [r \in 1..Len(dir) |-> REq(dir[r], d)]

\* trial_response[trials].mean()
DirMean(resp, dir, d) == Mean(BoolIndex(resp, DirMask(dir, d)))

\* for i, d in enumerate(dirvals): tuning[i] = trial_response[trials].mean()
TuningLoop ==
    /\ pc = "tuning_loop"
    /\ UNCHANGED <<figures, platform>>
    /\ err = "none"
    /\ IF i < Len(dirvals)
       THEN /\ iters' = [iters EXCEPT !.dir = @ + 1]
            /\ IF i < NDIR
               THEN /\ tuning' = [tuning EXCEPT
                          ![i + 1] = DirMean(trial_response, direction, dirvals[i + 1])]
                    /\ writes' = [writes EXCEPT !.tuning[i + 1] = @ + 1]
                    /\ i' = i + 1
                    /\ UNCHANGED <<pc, err>>
               ELSE /\ err' = "IndexError"
                    /\ UNCHANGED <<pc, tuning, writes, i>>
       ELSE /\ pc' = "tuning_plot"
            /\ UNCHANGED <<err, tuning, writes, iters, i>>
    /\ UNCHANGED <<dff_trace, stim_table, selection, plot_frames, plot_y, shade,
                   direction, temporal_frequency, trial_response, all_dir,
                   dirvals, tfvals, tfvals_bound, tuning_array, tuning_array_z, j>>

\* range(n)
PyRange(n) == [k \in 1..n |-> k - 1]

\* plt.plot(x, y): the curve drawn, ValueError when the lengths differ
SameLength(x, y) == Len(x) = Len(y)

\* plt.plot(dirvals, tuning, 'o-')
TuningPlot ==
    /\ pc = "tuning_plot"
    /\ err = "none"
    /\ IF SameLength(dirvals, tuning)
       THEN /\ tuning_plot' = [x |-> dirvals, y |-> tuning]
            /\ pc' = "exercise3"
            /\ UNCHANGED err
       ELSE /\ err' = "ValueError"
            /\ UNCHANGED <<pc, tuning_plot>>
    /\ UNCHANGED <<analysis, line_plot, heatmap, platform>>

\* Exercise 3, the cell as it stands: empty
Exercise3Blank ==
    /\ pc = "exercise3"
    /\ UNCHANGED <<figures, platform>>
    /\ pc' = "tuning_array_init"
    /\ UNCHANGED <<err, dff_trace, stim_table, selection, plot_frames, plot_y,
                   shade, direction, temporal_frequency, trial_response, all_dir,
                   dirvals, tuning, tfvals, tfvals_bound, tuning_array,
                   tuning_array_z, i, j, writes, iters>>

\* Exercise 3, filled in as the direction cells are: the finite unique
\* temporal frequencies
Exercise3Solution ==
    /\ pc = "exercise3"
    /\ UNCHANGED <<figures, platform>>
    /\ tfvals' = FiniteValues(temporal_frequency)
    /\ tfvals_bound' = TRUE
    /\ pc' = "tuning_array_init"
    /\ UNCHANGED <<err, dff_trace, stim_table, selection, plot_frames, plot_y,
                   shade, direction, temporal_frequency, trial_response, all_dir,
                   dirvals, tuning, tuning_array, tuning_array_z, i, j, writes,
                   iters>>

\* tuning_array = np.empty((8,5))
TuningArrayInit ==
    /\ pc = "tuning_array_init"
    /\ UNCHANGED <<figures, platform>>
    /\ \E g \in Garbage : tuning_array' = [r \in 1..NDIR |-> [c \in 1..NTF |-> g]]
    /\ writes' = [writes EXCEPT !.tuning_array = [r \in 1..NDIR |-> Zeros(NTF)]]
    /\ i' = 0
    /\ j' = 0
    /\ pc' = "tuning_array_loop"
    /\ UNCHANGED <<err, dff_trace, stim_table, selection, plot_frames, plot_y,
                   shade, direction, temporal_frequency, trial_response, all_dir,
                   dirvals, tuning, tfvals, tfvals_bound, tuning_array_z, iters>>

\* trials = (temporal_frequency==tf)&(direction==d)
CondMask_either(tfs, dir, tf, d) ==
    [r \in 1..Len(dir) |-> REq(tfs[r], tf) \/ REq(dir[r], d)]

CondMask(tfs, dir, tf, d) ==
    [r \in 1..Len(dir) |-> REq(tfs[r], tf) /\ REq(dir[r], d)]

CondMean(resp, tfs, dir, tf, d) == Mean(BoolIndex(resp, CondMask(tfs, dir, tf, d)))

\* for i,tf in enumerate(tfvals): for j,d in enumerate(dirvals):
\*     tuning_array[j,i] = trial_response[trials].mean()
TuningArrayLoop ==
    /\ pc = "tuning_array_loop"
    /\ UNCHANGED <<figures, platform>>
    /\ err = "none"
    /\ IF ~tfvals_bound
       THEN /\ err' = "NameError"
            /\ UNCHANGED <<pc, tuning_array, writes, iters, i, j>>
       ELSE IF i < Len(tfvals) /\ Len(dirvals) > 0
       THEN /\ iters' = [iters EXCEPT !.two_d = @ + 1]
            /\ IF j < NDIR /\ i < NTF
               THEN /\ tuning_array' = [tuning_array EXCEPT ![j + 1][i + 1] =
                          CondMean(trial_response, temporal_frequency, direction,
                                   tfvals[i + 1], dirvals[j + 1])]
                    /\ writes' = [writes EXCEPT !.tuning_array[j + 1][i + 1] = @ + 1]
                    /\ IF j + 1 < Len(dirvals)
                       THEN j' = j + 1 /\ i' = i
                       ELSE j' = 0 /\ i' = i + 1
                    /\ UNCHANGED <<pc, err>>
               ELSE /\ err' = "IndexError"
                    /\ UNCHANGED <<pc, tuning_array, writes, i, j>>
       ELSE /\ pc' = "line_plot"
            /\ UNCHANGED <<err, tuning_array, writes, iters, i, j>>
    /\ UNCHANGED <<dff_trace, stim_table, selection, plot_frames, plot_y, shade,
                   direction, temporal_frequency, trial_response, all_dir,
                   dirvals, tuning, tfvals, tfvals_bound, tuning_array_z>>

\* tuning_array[:,i]
ColumnOf(a, c) == [r \in 1..Len(a) |-> a[r][c + 1]]

\* the curves of: for i, tf in enumerate(tfvals):
\*                    plt.plot(dirvals, tuning_array[:,i], 'o-', label=tf)
Curves(x, a, labels) ==
    [c \in 1..Len(labels) |->
        [x |-> x, y |-> ColumnOf(a, c - 1), label |-> labels[c]]]

\* the whole loop is one step: its body has no branch, and the only
\* exception it can raise is raised by its first plt.plot
LinePlot ==
    /\ pc = "line_plot"
    /\ err = "none"
    /\ IF ~tfvals_bound
       THEN /\ err' = "NameError"
            /\ UNCHANGED <<pc, line_plot>>
       ELSE IF Len(tfvals) > 0 /\ ~SameLength(dirvals, tuning_array)
       THEN /\ err' = "ValueError"
            /\ UNCHANGED <<pc, line_plot>>
       ELSE IF Len(tfvals) > NTF
       THEN /\ err' = "IndexError"
            /\ UNCHANGED <<pc, line_plot>>
       ELSE /\ line_plot' = Curves(dirvals, tuning_array, tfvals)
            /\ pc' = "heatmap"
            /\ UNCHANGED err
    /\ UNCHANGED <<analysis, tuning_plot, heatmap, platform>>

\* plt.xticks(locs, labels): as many labels as locations, or ValueError
Ticks(locs, labels) == [locs |-> locs, labels |-> labels]

\* plt.imshow(tuning_array): pixel (x, y) shows entry [y, x]
\* plt.xticks(range(5), tfvals); plt.yticks(range(8), dirvals)
Heatmap_ticks_swapped ==
    /\ pc = "heatmap"
    /\ err = "none"
    /\ IF ~tfvals_bound
       THEN /\ err' = "NameError"
            /\ heatmap' = [image |-> tuning_array]
            /\ UNCHANGED pc
       ELSE IF ~SameLength(PyRange(NTF), tfvals)
                 \/ ~SameLength(PyRange(NDIR), dirvals)
       THEN /\ err' = "ValueError"
            /\ heatmap' = [image |-> tuning_array]
            /\ UNCHANGED pc
       ELSE /\ heatmap' = [image |-> tuning_array,
                           xticks |-> Ticks(PyRange(NDIR), dirvals),
                           yticks |-> Ticks(PyRange(NTF), tfvals)]
            /\ pc' = "zscore"
            /\ UNCHANGED err
    /\ UNCHANGED <<analysis, tuning_plot, line_plot, platform>>

Heatmap ==
    /\ pc = "heatmap"
    /\ err = "none"
    /\ IF ~tfvals_bound
       THEN /\ err' = "NameError"
            /\ heatmap' = [image |-> tuning_array]
            /\ UNCHANGED pc
       ELSE IF ~SameLength(PyRange(NTF), tfvals)
                 \/ ~SameLength(PyRange(NDIR), dirvals)
       THEN /\ err' = "ValueError"
            /\ heatmap' = [image |-> tuning_array]
            /\ UNCHANGED pc
       ELSE /\ heatmap' = [image |-> tuning_array,
                           xticks |-> Ticks(PyRange(NTF), tfvals),
                           yticks |-> Ticks(PyRange(NDIR), dirvals)]
            /\ pc' = "zscore"
            /\ UNCHANGED err
    /\ UNCHANGED <<analysis, tuning_plot, line_plot, platform>>

\* tuning_array_z = (tuning_array - tuning_array.mean())/tuning_array.std()
\* The quotient by the standard deviation is kept as the pair of the
\* numerator and the variance: the entry is num / sqrt(var).
\* the entries of a 2-D array in row-major order
Flat(a) ==
    IF a = <<>> THEN <<>>
    ELSE LET w == Len(a[1])
         IN  [k \in 1..(Len(a) * w) |-> a[((k - 1) \div w) + 1][((k - 1) % w) + 1]]

Variance(xs) ==
    LET m == Mean(xs)
    IN  Mean([k \in 1..Len(xs) |-> RMul(RSub(xs[k], m), RSub(xs[k], m))])

ZScore_uncentred(a) ==
    LET v == Variance(Flat(a))
    IN  [r \in 1..Len(a) |-> [c \in 1..Len(a[r]) |->
            [num |-> a[r][c], var |-> v]]]

ZScore(a) ==
    LET m == Mean(Flat(a))
        v == Variance(Flat(a))
    IN  [r \in 1..Len(a) |-> [c \in 1..Len(a[r]) |->
            [num |-> RSub(a[r][c], m), var |-> v]]]

ZScoreCell_in_place ==
    /\ pc = "zscore"
    /\ UNCHANGED <<figures, platform>>
    /\ tuning_array_z' = ZScore(tuning_array)
    /\ tuning_array' = [r \in 1..Len(tuning_array) |->
           [c \in 1..Len(tuning_array[r]) |-> tuning_array_z'[r][c].num]]
    /\ pc' = "done"
    /\ UNCHANGED <<err, dff_trace, stim_table, selection, plot_frames, plot_y,
                   shade, direction, temporal_frequency, trial_response, all_dir,
                   dirvals, tuning, tfvals, tfvals_bound, i, j, writes, iters>>

ZScoreCell ==
    /\ pc = "zscore"
    /\ UNCHANGED <<figures, platform>>
    /\ tuning_array_z' = ZScore(tuning_array)
    /\ pc' = "done"
    /\ UNCHANGED <<err, dff_trace, stim_table, selection, plot_frames, plot_y,
                   shade, direction, temporal_frequency, trial_response, all_dir,
                   dirvals, tuning, tfvals, tfvals_bound, tuning_array, i, j,
                   writes, iters>>

Next ==
    \/ Subselect
    \/ PlotTrial
    \/ TrialSetup
    \/ TrialLoop
    \/ UniqueDir
    \/ TuningInit
    \/ TuningLoop
    \/ TuningPlot
    \/ Exercise3Blank
    \/ Exercise3Solution
    \/ TuningArrayInit
    \/ TuningArrayLoop
    \/ LinePlot
    \/ Heatmap
    \/ ZScoreCell

Spec == Init /\ [][Next]_vars

\* ------------------------------------------------- the data access cell
\* The cell run on any host: platform.platform() and sys.modules are the
\* host's; nothing is loaded yet.
InitPlatform ==
    /\ platstring \in PlatformStrings
    /\ colab \in BOOLEAN
    /\ data_root = Unbound
    /\ manifest_file = Unbound
    /\ pc = "data_access"
    /\ err = "none"
    /\ dff_trace = <<>>
    /\ stim_table = <<>>
    /\ selection = <<>>
    /\ plot_frames = <<>>
    /\ plot_y = <<>>
    /\ shade = <<>>
    /\ direction = <<>>
    /\ temporal_frequency = <<>>
    /\ trial_response = <<>>
    /\ all_dir = <<>>
    /\ dirvals = <<>>
    /\ tuning = <<>>
    /\ tfvals = <<>>
    /\ tfvals_bound = FALSE
    /\ tuning_array = <<>>
    /\ tuning_array_z = <<>>
    /\ i = 0
    /\ j = 0
    /\ writes = [trial_response |-> <<>>, tuning |-> <<>>, tuning_array |-> <<>>]
    /\ iters = [trial |-> 0, dir |-> 0, two_d |-> 0]
    /\ tuning_plot = <<>>
    /\ line_plot = <<>>
    /\ heatmap = <<>>

\* if ... elif ... : data_root = ...
\* manifest_file = os.path.join(data_root, ...): NameError when no branch
\* bound data_root.  The cache object built from the path is not kept.
DataAccess ==
    /\ pc = "data_access"
    /\ err = "none"
    /\ data_root' = DataRoot(platstring, colab)
    /\ IF data_root' = Unbound
       THEN /\ err' = "NameError"
            /\ UNCHANGED <<pc, manifest_file>>
       ELSE /\ manifest_file' = ManifestFile(data_root')
            /\ pc' = "load_session"
            /\ UNCHANGED err
    /\ UNCHANGED <<analysis, figures, platstring, colab>>

NextPlatform == DataAccess

SpecPlatform == InitPlatform /\ [][NextPlatform]_vars


\* ================================================================ claims
\* the sum of the entries of s of integers at the indices in S within a..b
RECURSIVE SumIn(_, _, _, _)
SumIn(s, S, a, b) ==
    IF a > b THEN 0
    ELSE IF a = b THEN (IF a \in S THEN s[a] ELSE 0)
    ELSE LET m == (a + b) \div 2
         IN  SumIn(s, S, a, m) + SumIn(s, S, m + 1, b)

Min(S) == CHOOSE x \in S : \A y \in S : x <= y

Max(S) == CHOOSE x \in S : \A y \in S : y <= x

SetSum(s, S) == IF S = {} THEN 0 ELSE SumIn(s, S, Min(S), Max(S))

\* the row of the stimulus table for trial k
Row(k) == stim_table[k + 1]

\* the mean of the trace over a set of frames
FrameMean(frames) ==
    RNorm(SetSum(dff_trace, {f + 1 : f \in frames}), Cardinality(frames))

\* the frames a..b that the trace has
FramesBetween(a, b) == {f \in a..b : 0 <= f /\ f < Len(dff_trace)}

\* C1 as stated: after the trial loop, trial_response[i] is the mean of the
\* trace over the frames start[i] to end[i], the end frame included.
C1_EndFrameIncluded ==
    Finished("trial_loop") =>
        \A k \in 0..(Len(stim_table) - 1) :
            trial_response[k + 1] =
                FrameMean(FramesBetween(Row(k).start, Row(k).end))

\* C1 as amended: after the trial loop, trial_response[i] is the mean of the
\* trace over the frames from start[i] up to, but not including, end[i].
C1_EndFrameExcluded ==
    Finished("trial_loop") =>
        \A k \in 0..(Len(stim_table) - 1) :
            trial_response[k + 1] =
                FrameMean(FramesBetween(Row(k).start, Row(k).end - 1))

\* the trial loop has run and the end frame of some trial differs from the
\* mean of the trial's other frames
C1_Witness ==
    /\ Finished("trial_loop")
    /\ \E k \in 0..(Len(stim_table) - 1) :
          /\ Row(k).end > Row(k).start
          /\ F(dff_trace[Row(k).end + 1]) # trial_response[k + 1]


\* the values of a sequence
Range(s) == {s[k] : k \in 1..Len(s)}

\* the mean of trial_response over a set of trials (positions in the table)
TrialSetMean(T) ==
    LET c == Cardinality(T)
        total == RSum([p \in 1..c |->
                   trial_response[(CHOOSE k \in T : Cardinality({m \in T : m <= k}) = p) + 1]])
    IN  RDiv(total, F(c))

TrialsWithDirection(d) == {k \in 0..(Len(direction) - 1) : direction[k + 1] = d}

\* C2: after the direction loop, for every index i of dirvals, tuning[i] is
\* the mean of trial_response over exactly the trials whose direction is
\* dirvals[i], whatever their temporal frequency and repeat.
C2_TuningIsDirectionMean ==
    Finished("tuning_loop") =>
        \A k \in 0..(Len(dirvals) - 1) :
            tuning[k + 1] = TrialSetMean(TrialsWithDirection(dirvals[k + 1]))

\* the direction loop has finished and some direction was shown at several
\* temporal frequencies with different responses
C2_Witness ==
    /\ Finished("tuning_loop")
    /\ \E k \in 0..(Len(dirvals) - 1) :
          \E a, b \in TrialsWithDirection(dirvals[k + 1]) :
              /\ temporal_frequency[a + 1] # temporal_frequency[b + 1]
              /\ trial_response[a + 1] # trial_response[b + 1]
              /\ tuning[k + 1] # trial_response[a + 1]

\* C4: dirvals is exactly the set of distinct direction values of the table
\* that are not NaN: every finite direction of some trial, no value twice,
\* no NaN, in ascending order.
C4_DirvalsFiniteUniqueSorted ==
    Finished("unique_dir") =>
        /\ Range(dirvals) = {v \in Range(direction) : ~IsNaN(v)}
        /\ \A a, b \in 1..Len(dirvals) : a < b => RLess(dirvals[a], dirvals[b])

\* dirvals has been computed from a direction column that holds a NaN, a
\* repeated value and a descent
C4_Witness ==
    /\ Finished("unique_dir")
    /\ \E k \in 1..Len(direction) : IsNaN(direction[k])
    /\ \E a, b \in 1..Len(direction) : a < b /\ direction[a] = direction[b]
    /\ \E a \in 1..(Len(direction) - 1) : RLess(direction[a + 1], direction[a])
    /\ Len(dirvals) > 1

\* the rows of the table that satisfy orientation == 90
RowsWithOrientation(v) == {r \in 1..Len(stim_table) : stim_table[r].orientation = F(v)}

\* C10: selecting rows by a condition on a column yields exactly the rows that
\* satisfy it, in their original order, each with the index label it had in
\* the table; .iloc[0] of the selection is the first selected row whatever
\* its label.
C10_SelectionKeepsRowsAndLabels ==
    Finished("subselect") =>
        /\ Len(selection) = Cardinality(RowsWithOrientation(SEL_ORI))
        /\ \A p \in 1..Len(selection) :
              /\ selection[p].index + 1 \in RowsWithOrientation(SEL_ORI)
              /\ selection[p] = stim_table[selection[p].index + 1]
        /\ \A p, q \in 1..Len(selection) :
              p < q => selection[p].index < selection[q].index
        /\ selection # <<>> =>
              Iloc(selection, 0) = stim_table[Min(RowsWithOrientation(SEL_ORI))]

\* several rows were selected and the first of them is not the table's
\* first row
C10_Witness ==
    /\ Finished("subselect")
    /\ Len(selection) > 1
    /\ Iloc(selection, 0).index > 0
    /\ Len(selection) < Len(stim_table)


TrialsWithCondition(tf, d) ==
    {k \in 0..(Len(direction) - 1) :
        temporal_frequency[k + 1] = tf /\ direction[k + 1] = d}

C5_ResultArraysFilledOnce ==
    /\ err # "IndexError"
    /\ Finished("tuning_loop") =>
          /\ \A k \in 1..NDIR : writes.tuning[k] = 1
          /\ Len(dirvals) = NDIR
    /\ Finished("tuning_array_loop") =>
          /\ \A r \in 1..NDIR, c \in 1..NTF : writes.tuning_array[r][c] = 1
          /\ Len(tfvals) = NTF

\* C8: every computational step is one bounded pass that runs to its end:
\* when the run has stopped, every loop has finished, the trial loop after
\* len(stim_table) iterations that wrote each index of trial_response once,
\* the direction loop after one iteration per element of dirvals, the
\* two-dimensional loop after one iteration per (tfvals, dirvals) pair.
Stopped == pc = "done" \/ err # "none"

C8_EveryLoopRunsToItsEnd ==
    /\ Finished("trial_loop") =>
          /\ iters.trial = Len(stim_table)
          /\ \A k \in 1..Len(stim_table) : writes.trial_response[k] = 1
    /\ Stopped =>
          /\ Finished("tuning_array_loop")
          /\ iters.dir = Len(dirvals)
          /\ iters.two_d = Len(tfvals) * Len(dirvals)


\* the value num / sqrt(var) of an entry of tuning_array_z
ZIsNaN(z) ==
    \/ IsNaN(z.num) \/ IsNaN(z.var)
    \/ (z.num.n = 0 /\ z.var.n = 0)
    \/ (z.num.d = 0 /\ z.var.d = 0)

ZSign(z) == IF z.var.d = 0 THEN 0 ELSE Sign(z.num.n)

ZPositive(z) == ~ZIsNaN(z) /\ ZSign(z) = 1

ZZero(z) == ~ZIsNaN(z) /\ ZSign(z) = 0

ZNegative(z) == ~ZIsNaN(z) /\ ZSign(z) = -1

ZLess(a, b) == ~ZIsNaN(a) /\ ~ZIsNaN(b) /\ RLess(a.num, b.num)

\* the variance as the mean of the squares minus the square of the mean
MeanSquareVariance(xs) ==
    RSub(Mean([k \in 1..Len(xs) |-> RMul(xs[k], xs[k])]), RMul(Mean(xs), Mean(xs)))

Numerators(zs) == [k \in 1..Len(zs) |-> zs[k].num]

\* z is x standardised: the difference to the grand mean over the standard
\* deviation, with the sign and order of x, of mean zero and deviation one
Standardised(xs, zs) ==
    LET m == Mean(xs) IN
    /\ \A k \in 1..Len(xs) :
          /\ zs[k].num = RSub(xs[k], m)
          /\ zs[k].var = MeanSquareVariance(xs)
          /\ ZPositive(zs[k]) <=> RLess(m, xs[k])
          /\ ZZero(zs[k]) <=> REq(xs[k], m)
          /\ ZNegative(zs[k]) <=> RLess(xs[k], m)
    /\ \A k, l \in 1..Len(xs) : RLess(xs[k], xs[l]) => ZLess(zs[k], zs[l])
    /\ RSum(Numerators(zs)) = F(0)
    /\ MeanSquareVariance(Numerators(zs)) = zs[1].var

\* every entry of tuning_array has been assigned by the two-dimensional loop
TuningArrayAssigned ==
    \A r \in 1..NDIR, c \in 1..NTF : writes.tuning_array[r][c] = 1

C7_ShadeIsStimulusPeriod ==
    Finished("plot_trial") =>
        /\ plot_frames # <<>>
        /\ plot_frames[1] = Row(0).start - PAD
        /\ plot_frames[Len(plot_frames)] = Row(0).end + PAD - 1
        /\ shade = <<PAD, SPAN_END>>
        /\ shade[2] + 1 \in DOMAIN plot_frames
        /\ plot_frames[shade[1] + 1] = Row(0).start
        /\ plot_frames[shade[2] + 1] = Row(0).end

\* C9: the aggregation steps only read their inputs: computing dirvals,
\* tuning, tuning_array and tuning_array_z leaves dff_trace, the stimulus
\* table, direction, temporal_frequency and trial_response unchanged, each
\* leaves the results of the steps before it unchanged, and computing
\* tuning_array_z leaves tuning_array unchanged.
AggregationReadOnly ==
    /\ Finished("trial_loop") =>
          UNCHANGED <<dff_trace, stim_table, direction, temporal_frequency,
                      trial_response>>
    /\ Finished("unique_dir") => UNCHANGED <<all_dir, dirvals>>
    /\ Finished("tuning_loop") => UNCHANGED tuning
    /\ Finished("tuning_array_init") => UNCHANGED tfvals
    /\ Finished("tuning_array_loop") => UNCHANGED tuning_array

C9_AggregationReadOnly == [][AggregationReadOnly]_vars

\* the z-score has been computed from a tuning array whose entries differ
C9_Witness ==
    /\ pc = "done"
    /\ tuning_array_z # <<>>
    /\ \E k, l \in 1..Len(Flat(tuning_array)) :
          RLess(Flat(tuning_array)[k], Flat(tuning_array)[l])

\* --------------------------------------------------------------- C11
\* the data access cell has run, to its end or to an exception
DataAccessRan == pc # "data_access" \/ err # "none"

NamesMac == Contains(platstring, Str_Darwin) \/ Contains(platstring, Str_macOS)

NamesWindows == Contains(platstring, Str_Windows)

OnCodeOceanOrColab == Contains(platstring, Str_amzn) \/ colab

NamesLinux == Contains(platstring, Str_Linux)

\* what the claim says of the branches that are taken
BranchOrder ==
    /\ NamesMac => data_root = "/Volumes/TReND2025/"
    /\ ~NamesMac /\ NamesWindows => data_root = "E:/"
    /\ ~NamesMac /\ ~NamesWindows /\ OnCodeOceanOrColab => data_root = "/data/"
    /\ data_root = "/media/$USERNAME/TReND2025/"
          <=> NamesLinux /\ ~NamesMac /\ ~NamesWindows /\ ~OnCodeOceanOrColab

\* C11 as stated: the conditions are checked in the order macOS, Windows,
\* Code Ocean/Colab, Linux and exactly one branch is taken, so that after the
\* cell data_root is one of the four roots; "/data/" wins over the Linux root,
\* which is chosen only when no earlier condition holds.
C11_ExactlyOneBranch ==
    DataAccessRan =>
        /\ data_root \in {"/Volumes/TReND2025/", "E:/", "/data/",
                          "/media/$USERNAME/TReND2025/"}
        /\ BranchOrder

\* C11 amended: the conditions are checked in that order and at most one
\* branch is taken, the first whose condition holds; on a host that meets no
\* condition no branch is taken, data_root stays unbound and the cell stops
\* with NameError where it builds the manifest path.
C11_FirstBranchThatHolds ==
    DataAccessRan =>
        /\ BranchOrder
        /\ IF NamesMac \/ NamesWindows \/ OnCodeOceanOrColab \/ NamesLinux
           THEN /\ data_root \in {"/Volumes/TReND2025/", "E:/", "/data/",
                                  "/media/$USERNAME/TReND2025/"}
                /\ manifest_file = ManifestFile(data_root)
                /\ err = "none"
           ELSE /\ data_root = Unbound
                /\ manifest_file = Unbound
                /\ pc = "data_access"
                /\ err = "NameError"

\* a Code Ocean host: the platform string names both Linux and amzn
C11_Witness ==
    /\ pc = "load_session"
    /\ NamesLinux
    /\ Contains(platstring, Str_amzn)
    /\ ~colab
    /\ data_root = "/data/"

\* --------------------------------------------------------------- C12
\* the value the heatmap shows at column x, row y
Pixel(x, y) == heatmap.image[y + 1][x + 1]

\* the label an axis shows at a position
TickLabel(ticks, pos) ==
    ticks.labels[CHOOSE k \in 1..Len(ticks.locs) : ticks.locs[k] = pos]

\* the value that stands for a condition: the mean response of its trials
ConditionResponse(tf, d) ==
    LET T == TrialsWithCondition(tf, d)
    IN  IF T = {} THEN NaN ELSE TrialSetMean(T)

\* C12: the labels of the heatmap agree with the indexing of tuning_array.
\* Row j is drawn at y position j, holds the responses to direction
\* dirvals[j] and is labelled dirvals[j]; column i is drawn at x position i,
\* holds the responses to temporal frequency tfvals[i] and is labelled
\* tfvals[i]; and the curve of the line plot labelled tfvals[i] is that same
\* column i drawn over dirvals.
C12_LabelsAgreeWithIndexing ==
    Finished("heatmap") =>
        /\ Len(heatmap.image) = Len(heatmap.yticks.locs)
        /\ \A y \in 0..(Len(heatmap.image) - 1) :
              Len(heatmap.image[y + 1]) = Len(heatmap.xticks.locs)
        /\ \A y \in 0..(Len(dirvals) - 1), x \in 0..(Len(tfvals) - 1) :
              /\ Pixel(x, y) = tuning_array[y + 1][x + 1]
              /\ TickLabel(heatmap.yticks, y) = dirvals[y + 1]
              /\ TickLabel(heatmap.xticks, x) = tfvals[x + 1]
              /\ Pixel(x, y) = ConditionResponse(TickLabel(heatmap.xticks, x),
                                                 TickLabel(heatmap.yticks, y))
        /\ Len(line_plot) = Len(heatmap.xticks.locs)
        /\ \A c \in 1..Len(line_plot) :
              /\ line_plot[c].label = TickLabel(heatmap.xticks, c - 1)
              /\ Len(line_plot[c].y) = Len(heatmap.image)
              /\ \A p \in 1..Len(line_plot[c].y) :
                    /\ line_plot[c].y[p] = Pixel(c - 1, p - 1)
                    /\ line_plot[c].x[p] = TickLabel(heatmap.yticks, p - 1)
                    /\ line_plot[c].y[p] =
                           ConditionResponse(line_plot[c].label, line_plot[c].x[p])

\* the heatmap is drawn and its values differ along a row, along a column
\* and across the diagonal, so that no relabelling of the axes goes unseen
C12_Witness ==
    /\ Finished("heatmap")
    /\ \E y \in 0..(NDIR - 1), x1, x2 \in 0..(NTF - 1) :
          Pixel(x1, y) # Pixel(x2, y)
    /\ \E x \in 0..(NTF - 1), y1, y2 \in 0..(NDIR - 1) :
          Pixel(x, y1) # Pixel(x, y2)
    /\ \E x, y \in 0..(NTF - 1) : Pixel(x, y) # Pixel(y, x)

\* --------------------------------------------------------------- C13
\* C13: when the code cells run in order as written, every name a cell reads
\* has been bound by an earlier cell, so no cell stops with NameError; in
\* particular tfvals is bound before the two-dimensional loop, the line plot
\* and the heatmap ticks read it.
C13_ReadsAreBound ==
    /\ Reads(pc) \subseteq BoundNames
    /\ err # "NameError"

====
